---- MODULE Spec2Model ----
(***************************************************************************)
(* Model of src/linux.rs: the Enigo wrapper around the libxdo engine.      *)
(*                                                                         *)
(* Representation of machine integers.  TLC integers are 32-bit signed, so *)
(* i32 values (window, pid, scroll length, button codes) are plain         *)
(* integers in MinI32..MaxI32 with the wrap-around written out, and the    *)
(* unsigned types are little-endian tuples of 16-bit limbs: a u32 is       *)
(* <<l0, l1>> and a u64 is <<l0, l1, l2, l3>>, value = SUM l_i * 2^(16 i). *)
(*                                                                         *)
(* Representation of text.  A string is a sequence of characters, each a   *)
(* one-character TLA+ string; NUL stands for the character U+0000 (the     *)
(* only character whose UTF-8 encoding contains a zero byte).              *)
(***************************************************************************)
EXTENDS Integers, Sequences, FiniteSets, Bags, TLC

VARIABLES
    xdo,              \* Enigo.xdo: the engine handle held by the wrapper
    delay,            \* Enigo.delay: u64
    window,           \* Enigo.window: i32
    alive,            \* TRUE from construction until Drop has run
    overflow_checks,  \* build profile: are arithmetic overflow checks compiled in
    op,               \* the most recent invocation on the wrapper: [name, ...]
    issued,           \* bag of the engine calls issued by that invocation
    reply,            \* what the engine answered, when the operation reads it
    result,           \* what the invocation handed back to its caller
    session,          \* engine side: the handle xdo_new returned
    nNew,             \* engine side: number of xdo_new calls so far
    nFree,            \* engine side: number of xdo_free calls so far
    setWindowArg,     \* history: <<w>> for the latest set_window(w), <<>> if none
    setDelayArg       \* history: <<d>> for the latest set_delay(d), <<>> if none

vars == <<xdo, delay, window, alive, overflow_checks, op, issued, reply,
          result, session, nNew, nFree, setWindowArg, setDelayArg>>

(***************************************************************************)
(* Bounds of the model                                                     *)
(***************************************************************************)
MaxLen == 2          \* longest text handed to key_sequence

(***************************************************************************)
(* Machine integers                                                        *)
(***************************************************************************)
MaxI32 == 2147483647
MinI32 == -MaxI32 - 1
Limb == 2^16

\* a non-negative i32-sized number as u64 / u32 limbs
U64(n) == <<n % Limb, n \div Limb, 0, 0>>
U32(n) == <<n % Limb, n \div Limb>>

\* `x as useconds_t` for x: u64 (useconds_t is a 32-bit unsigned): keeps the
\* low 32 bits
AsUsecondsT(d) == <<d[1], d[2]>>

\* `x as i32` for x: u32: reinterprets the 32 bits as two's complement
U32AsI32(c) ==
    IF c[2] >= Limb \div 2 THEN (c[2] - Limb) * Limb + c[1]
    ELSE c[2] * Limb + c[1]

CURRENT_WINDOW == 0
DEFAULT_DELAY == 12000

(***************************************************************************)
(* Text                                                                    *)
(***************************************************************************)
NUL == "NUL"

\* CString::new(s): Err if s has an interior U+0000, else the bytes of s
\* followed by the terminator
CString_new(s) ==
    IF \E i \in 1..Len(s) : s[i] = NUL
    THEN [ok |-> FALSE, bytes |-> <<>>]
    ELSE [ok |-> TRUE, bytes |-> s \o <<NUL>>]

\* what the engine reads through `string.as_ptr()`: the characters up to,
\* not including, the first terminator
RECURSIVE as_ptr(_)
as_ptr(bytes) ==
    IF bytes = <<>> \/ Head(bytes) = NUL THEN <<>>
    ELSE <<Head(bytes)>> \o as_ptr(Tail(bytes))

(***************************************************************************)
(* Key/button mapper                                                       *)
(***************************************************************************)
MouseButton ==
    {"Left", "Middle", "Right", "ScrollUp", "ScrollDown", "ScrollLeft",
     "ScrollRight"}

mousebutton_swapped(button) ==
    CASE button = "Left" -> 1
      [] button = "Middle" -> 3
      [] button = "Right" -> 2
      [] button = "ScrollUp" -> 4
      [] button = "ScrollDown" -> 5
      [] button = "ScrollLeft" -> 6
      [] button = "ScrollRight" -> 7

mousebutton(button) ==
    CASE button = "Left" -> 1
      [] button = "Middle" -> 2
      [] button = "Right" -> 3
      [] button = "ScrollUp" -> 4
      [] button = "ScrollDown" -> 5
      [] button = "ScrollLeft" -> 6
      [] button = "ScrollRight" -> 7

\* the symbolic variants of Key that keysequence matches on
SymbolicKeys ==
    {"Alt", "Backspace", "CapsLock", "Control", "Delete", "DownArrow",
     "End", "Escape", "F1", "F10", "F11", "F12", "F2", "F3", "F4",
     "F5", "F6", "F7", "F8", "F9", "Home", "LeftArrow", "Option",
     "PageDown", "PageUp", "Return", "RightArrow", "Shift", "Space",
     "Tab", "UpArrow", "Command", "Super", "Windows", "Meta"}

\* a Key value: a symbolic variant, Layout(c) with c a character given by its
\* code point, or Raw(k) with k: u16
Sym(name) == [tag |-> name, v |-> 0]
Layout(c) == [tag |-> "Layout", v |-> c]
Raw(k) == [tag |-> "Raw", v |-> k]

Digits ==
    <<"0", "1", "2", "3", "4", "5", "6", "7", "8", "9",
      "A", "B", "C", "D", "E", "F">>
LowerDigits ==
    <<"0", "1", "2", "3", "4", "5", "6", "7", "8", "9",
      "a", "b", "c", "d", "e", "f">>

RECURSIVE LowerHex(_)
LowerHex(n) ==
    IF n < 16 THEN <<LowerDigits[n + 1]>>
    ELSE LowerHex(n \div 16) \o <<LowerDigits[(n % 16) + 1]>>

\* format!("{:X}", n)
RECURSIVE UpperHex(_)
UpperHex(n) ==
    IF n < 16 THEN <<Digits[n + 1]>>
    ELSE UpperHex(n \div 16) \o <<Digits[(n % 16) + 1]>>

\* format!("{}", n)
RECURSIVE Display(_)
Display(n) ==
    IF n < 10 THEN <<Digits[n + 1]>>
    ELSE Display(n \div 10) \o <<Digits[(n % 10) + 1]>>

\* the match of keysequence over the symbolic variants
SymbolicToken(key) ==
    CASE key.tag = "Alt" -> <<"A", "l", "t">>
      [] key.tag = "Backspace" -> <<"B", "a", "c", "k", "S", "p", "a", "c", "e">>
      [] key.tag = "CapsLock" -> <<"C", "a", "p", "s", "_", "L", "o", "c", "k">>
      [] key.tag = "Control" -> <<"C", "o", "n", "t", "r", "o", "l">>
      [] key.tag = "Delete" -> <<"D", "e", "l", "e", "t", "e">>
      [] key.tag = "DownArrow" -> <<"D", "o", "w", "n">>
      [] key.tag = "End" -> <<"E", "n", "d">>
      [] key.tag = "Escape" -> <<"E", "s", "c", "a", "p", "e">>
      [] key.tag = "F1" -> <<"F", "1">>
      [] key.tag = "F10" -> <<"F", "1", "0">>
      [] key.tag = "F11" -> <<"F", "1", "1">>
      [] key.tag = "F12" -> <<"F", "1", "2">>
      [] key.tag = "F2" -> <<"F", "2">>
      [] key.tag = "F3" -> <<"F", "3">>
      [] key.tag = "F4" -> <<"F", "4">>
      [] key.tag = "F5" -> <<"F", "5">>
      [] key.tag = "F6" -> <<"F", "6">>
      [] key.tag = "F7" -> <<"F", "7">>
      [] key.tag = "F8" -> <<"F", "8">>
      [] key.tag = "F9" -> <<"F", "9">>
      [] key.tag = "Home" -> <<"H", "o", "m", "e">>
      [] key.tag = "LeftArrow" -> <<"L", "e", "f", "t">>
      [] key.tag = "Option" -> <<"O", "p", "t", "i", "o", "n">>
      [] key.tag = "PageDown" -> <<"P", "a", "g", "e", "_", "D", "o", "w", "n">>
      [] key.tag = "PageUp" -> <<"P", "a", "g", "e", "_", "U", "p">>
      [] key.tag = "Return" -> <<"R", "e", "t", "u", "r", "n">>
      [] key.tag = "RightArrow" -> <<"R", "i", "g", "h", "t">>
      [] key.tag = "Shift" -> <<"S", "h", "i", "f", "t">>
      [] key.tag = "Space" -> <<"s", "p", "a", "c", "e">>
      [] key.tag = "Tab" -> <<"T", "a", "b">>
      [] key.tag = "UpArrow" -> <<"U", "p">>
      [] key.tag \in {"Command", "Super", "Windows", "Meta"} ->
            <<"S", "u", "p", "e", "r">>

keysequence(key) ==
    IF key.tag = "Layout" THEN <<"U">> \o UpperHex(key.v)
    ELSE IF key.tag = "Raw" THEN Display(key.v)
    ELSE SymbolicToken(key)

(***************************************************************************)
(* The engine boundary: one record per foreign call, with its arguments    *)
(***************************************************************************)
NULL == "null"

xdo_new(display) == [fn |-> "xdo_new", display |-> display]
xdo_free(x) == [fn |-> "xdo_free", xdo |-> x]
xdo_focus_window(x, w) == [fn |-> "xdo_focus_window", xdo |-> x, window |-> w]
xdo_get_pid_window(x, w) ==
    [fn |-> "xdo_get_pid_window", xdo |-> x, window |-> w]
xdo_search_windows(x, search) ==
    [fn |-> "xdo_search_windows", xdo |-> x, search |-> search]
xdo_click_window(x, w, button) ==
    [fn |-> "xdo_click_window", xdo |-> x, window |-> w, button |-> button]
xdo_mouse_down(x, w, button) ==
    [fn |-> "xdo_mouse_down", xdo |-> x, window |-> w, button |-> button]
xdo_mouse_up(x, w, button) ==
    [fn |-> "xdo_mouse_up", xdo |-> x, window |-> w, button |-> button]
xdo_move_mouse(x, px, py, screen) ==
    [fn |-> "xdo_move_mouse", xdo |-> x, x |-> px, y |-> py,
     screen |-> screen]
xdo_move_mouse_relative(x, px, py) ==
    [fn |-> "xdo_move_mouse_relative", xdo |-> x, x |-> px, y |-> py]
xdo_enter_text_window(x, w, string, d) ==
    [fn |-> "xdo_enter_text_window", xdo |-> x, window |-> w,
     string |-> string, delay |-> d]
xdo_send_keysequence_window(x, w, string, d) ==
    [fn |-> "xdo_send_keysequence_window", xdo |-> x, window |-> w,
     string |-> string, delay |-> d]
xdo_send_keysequence_window_down(x, w, string, d) ==
    [fn |-> "xdo_send_keysequence_window_down", xdo |-> x, window |-> w,
     string |-> string, delay |-> d]
xdo_send_keysequence_window_up(x, w, string, d) ==
    [fn |-> "xdo_send_keysequence_window_up", xdo |-> x, window |-> w,
     string |-> string, delay |-> d]

\* the bag holding n copies of one call (none when n <= 0)
Times(call, n) == IF n <= 0 THEN EmptyBag ELSE [c \in {call} |-> n]

\* Search::default(): the all-zero record
Search_default ==
    [title |-> NULL, winclass |-> NULL, winclassname |-> NULL,
     winname |-> NULL, winrole |-> NULL, pid |-> 0, max_depth |-> 0,
     only_visible |-> 0, screen |-> 0, require |-> 0, searchmask |-> 0,
     desktop |-> 0, limit |-> 0]

(***************************************************************************)
(* Inputs                                                                  *)
(***************************************************************************)
Handles == {NULL, "xdo1"}
Windows == {MinI32, 42, MaxI32}
Delays ==
    {U64(5000), <<0, 0, 1, 0>>, <<65535, 65535, 65535, 65535>>}
Coordinates == {MinI32, 7}
Lengths == {MinI32, -3, -1, 0, 1, 3, MaxI32}
CodePoints == {0, 10, 65, 171, 4096, 57344, 1114111}
KeyCodes == {0, 9, 65, 65535}
Keys ==
    {Sym(name) : name \in SymbolicKeys} \cup {Layout(c) : c \in CodePoints}
        \cup {Raw(k) : k \in KeyCodes}
Alphabet == {"a", "b", NUL}
Texts == UNION {[1..n -> Alphabet] : n \in 0..MaxLen}
Pids == {MinI32, 1234}
Counts == {U32(0), U32(3), <<0, 32768>>, <<65535, 65535>>}
EngineInts == {-1, 0}

Unit == [kind |-> "unit"]
Panic == [kind |-> "panic"]

(***************************************************************************)
(* Construction: Enigo::default()                                          *)
(***************************************************************************)
Init ==
    \E h \in Handles :
        /\ xdo = h
        /\ delay = U64(DEFAULT_DELAY)
        /\ window = CURRENT_WINDOW
        /\ alive = TRUE
        /\ overflow_checks \in BOOLEAN
        /\ op = [name |-> "default"]
        /\ issued = Times(xdo_new(NULL), 1)
        /\ reply = <<>>
        /\ result = Unit
        /\ session = h
        /\ nNew = 1
        /\ nFree = 0
        /\ setWindowArg = <<>>
        /\ setDelayArg = <<>>

(***************************************************************************)
(* impl Enigo                                                              *)
(***************************************************************************)
Enigo_delay ==
    /\ alive
    /\ op' = [name |-> "delay"]
    /\ issued' = EmptyBag
    /\ reply' = <<>>
    /\ result' = [kind |-> "u64", value |-> delay]
    /\ UNCHANGED <<xdo, delay, window, alive, overflow_checks, session, nNew,
                   nFree, setWindowArg, setDelayArg>>

set_delay_resets_window(d) ==
    /\ alive
    /\ delay' = d
    /\ window' = CURRENT_WINDOW
    /\ op' = [name |-> "set_delay", delay |-> d]
    /\ issued' = EmptyBag
    /\ reply' = <<>>
    /\ result' = Unit
    /\ setDelayArg' = <<d>>
    /\ UNCHANGED <<xdo, alive, overflow_checks, session, nNew, nFree,
                   setWindowArg>>

set_delay(d) ==
    /\ alive
    /\ delay' = d
    /\ op' = [name |-> "set_delay", delay |-> d]
    /\ issued' = EmptyBag
    /\ reply' = <<>>
    /\ result' = Unit
    /\ setDelayArg' = <<d>>
    /\ UNCHANGED <<xdo, window, alive, overflow_checks, session, nNew, nFree,
                   setWindowArg>>

Enigo_window ==
    /\ alive
    /\ op' = [name |-> "window"]
    /\ issued' = EmptyBag
    /\ reply' = <<>>
    /\ result' = [kind |-> "i32", value |-> window]
    /\ UNCHANGED <<xdo, delay, window, alive, overflow_checks, session, nNew,
                   nFree, setWindowArg, setDelayArg>>

set_window(w) ==
    /\ alive
    /\ window' = w
    /\ op' = [name |-> "set_window", window |-> w]
    /\ issued' = EmptyBag
    /\ reply' = <<>>
    /\ result' = Unit
    /\ setWindowArg' = <<w>>
    /\ UNCHANGED <<xdo, delay, alive, overflow_checks, session, nNew, nFree,
                   setDelayArg>>

window_focus_current(status) ==
    /\ alive
    /\ op' = [name |-> "window_focus"]
    /\ issued' = Times(xdo_focus_window(xdo, CURRENT_WINDOW), 1)
    /\ reply' = <<[status |-> status]>>
    /\ result' = [kind |-> "i32", value |-> status]
    /\ UNCHANGED <<xdo, delay, window, alive, overflow_checks, session, nNew,
                   nFree, setWindowArg, setDelayArg>>

window_focus(status) ==
    /\ alive
    /\ op' = [name |-> "window_focus"]
    /\ issued' = Times(xdo_focus_window(xdo, window), 1)
    /\ reply' = <<[status |-> status]>>
    /\ result' = [kind |-> "i32", value |-> status]
    /\ UNCHANGED <<xdo, delay, window, alive, overflow_checks, session, nNew,
                   nFree, setWindowArg, setDelayArg>>

window_pid(status) ==
    /\ alive
    /\ op' = [name |-> "window_pid"]
    /\ issued' = Times(xdo_get_pid_window(xdo, window), 1)
    /\ reply' = <<[status |-> status]>>
    /\ result' = [kind |-> "i32", value |-> status]
    /\ UNCHANGED <<xdo, delay, window, alive, overflow_checks, session, nNew,
                   nFree, setWindowArg, setDelayArg>>

\* the engine answers with a status, which is dropped, and writes the number
\* of windows through count_ptr
search_window_by_pid(pid, status, count) ==
    LET search == [Search_default EXCEPT !.pid = pid, !.max_depth = 100,
                                         !.searchmask = 1 * 2^3]
        output == count
    IN  /\ alive
        /\ op' = [name |-> "search_window_by_pid", pid |-> pid]
        /\ issued' = Times(xdo_search_windows(xdo, search), 1)
        /\ reply' = <<[status |-> status, count |-> count]>>
        /\ result' = [kind |-> "i32", value |-> U32AsI32(output),
                      printed |-> output]
        /\ UNCHANGED <<xdo, delay, window, alive, overflow_checks, session,
                       nNew, nFree, setWindowArg, setDelayArg>>

(***************************************************************************)
(* impl Drop for Enigo.  Runs once, when the owner lets go of the wrapper: *)
(* at the end of its scope, or while a panic of the preceding operation    *)
(* unwinds through it (recorded in op.unwinding).                          *)
(***************************************************************************)
Drop_leak ==
    /\ alive
    /\ alive' = FALSE
    /\ op' = [name |-> "drop", unwinding |-> result = Panic]
    /\ issued' = EmptyBag
    /\ reply' = <<>>
    /\ result' = Unit
    /\ UNCHANGED <<xdo, delay, window, overflow_checks, session, nNew, nFree,
                   setWindowArg, setDelayArg>>

Drop ==
    /\ alive
    /\ alive' = FALSE
    /\ op' = [name |-> "drop", unwinding |-> result = Panic]
    /\ issued' = Times(xdo_free(xdo), 1)
    /\ nFree' = nFree + 1
    /\ reply' = <<>>
    /\ result' = Unit
    /\ UNCHANGED <<xdo, delay, window, overflow_checks, session, nNew,
                   setWindowArg, setDelayArg>>

(***************************************************************************)
(* impl MouseControllable for Enigo                                        *)
(***************************************************************************)
mouse_move_to(x, y) ==
    /\ alive
    /\ op' = [name |-> "mouse_move_to", x |-> x, y |-> y]
    /\ issued' = Times(xdo_move_mouse(xdo, x, y, 0), 1)
    /\ reply' = <<>>
    /\ result' = Unit
    /\ UNCHANGED <<xdo, delay, window, alive, overflow_checks, session, nNew,
                   nFree, setWindowArg, setDelayArg>>

mouse_move_relative(x, y) ==
    /\ alive
    /\ op' = [name |-> "mouse_move_relative", x |-> x, y |-> y]
    /\ issued' = Times(xdo_move_mouse_relative(xdo, x, y), 1)
    /\ reply' = <<>>
    /\ result' = Unit
    /\ UNCHANGED <<xdo, delay, window, alive, overflow_checks, session, nNew,
                   nFree, setWindowArg, setDelayArg>>

mouse_down(button) ==
    /\ alive
    /\ op' = [name |-> "mouse_down", button |-> button]
    /\ issued' = Times(xdo_mouse_down(xdo, window, mousebutton(button)), 1)
    /\ reply' = <<>>
    /\ result' = Unit
    /\ UNCHANGED <<xdo, delay, window, alive, overflow_checks, session, nNew,
                   nFree, setWindowArg, setDelayArg>>

mouse_up(button) ==
    /\ alive
    /\ op' = [name |-> "mouse_up", button |-> button]
    /\ issued' = Times(xdo_mouse_up(xdo, window, mousebutton(button)), 1)
    /\ reply' = <<>>
    /\ result' = Unit
    /\ UNCHANGED <<xdo, delay, window, alive, overflow_checks, session, nNew,
                   nFree, setWindowArg, setDelayArg>>

\* the one engine call made by mouse_click(button)
mouse_click_call(button) ==
    xdo_click_window(xdo, window, mousebutton(button))

mouse_click(button) ==
    /\ alive
    /\ op' = [name |-> "mouse_click", button |-> button]
    /\ issued' = Times(mouse_click_call(button), 1)
    /\ reply' = <<>>
    /\ result' = Unit
    /\ UNCHANGED <<xdo, delay, window, alive, overflow_checks, session, nNew,
                   nFree, setWindowArg, setDelayArg>>

\* `-length` overflows for i32::MIN: a panic when overflow checks are compiled
\* in, the wrapped value i32::MIN otherwise; `0..length` is then empty
mouse_scroll_x(length) ==
    LET button == IF length < 0 THEN "ScrollLeft" ELSE "ScrollRight"
        overflow == length < 0 /\ length = MinI32
        magnitude ==
            IF length < 0
            THEN (IF length = MinI32 THEN MinI32 ELSE -length)
            ELSE length
    IN  /\ alive
        /\ op' = [name |-> "mouse_scroll_x", length |-> length]
        /\ reply' = <<>>
        /\ IF overflow /\ overflow_checks
           THEN /\ issued' = EmptyBag
                /\ result' = Panic
           ELSE /\ issued' = Times(mouse_click_call(button), magnitude)
                /\ result' = Unit
        /\ UNCHANGED <<xdo, delay, window, alive, overflow_checks, session, nNew,
                       nFree, setWindowArg, setDelayArg>>

mouse_scroll_y(length) ==
    LET button == IF length < 0 THEN "ScrollUp" ELSE "ScrollDown"
        overflow == length < 0 /\ length = MinI32
        magnitude ==
            IF length < 0
            THEN (IF length = MinI32 THEN MinI32 ELSE -length)
            ELSE length
    IN  /\ alive
        /\ op' = [name |-> "mouse_scroll_y", length |-> length]
        /\ reply' = <<>>
        /\ IF overflow /\ overflow_checks
           THEN /\ issued' = EmptyBag
                /\ result' = Panic
           ELSE /\ issued' = Times(mouse_click_call(button), magnitude)
                /\ result' = Unit
        /\ UNCHANGED <<xdo, delay, window, alive, overflow_checks, session, nNew,
                       nFree, setWindowArg, setDelayArg>>

(***************************************************************************)
(* impl KeyboardControllable for Enigo                                     *)
(* `.unwrap()` on the Err of CString::new panics before the engine call.   *)
(* A panic unwinds: the wrapper stays owned by its caller, who either      *)
(* catches the panic and goes on, or is unwound too, which runs Drop.      *)
(***************************************************************************)
key_sequence(sequence) ==
    LET string == CString_new(sequence)
    IN  /\ alive
        /\ op' = [name |-> "key_sequence", sequence |-> sequence]
        /\ reply' = <<>>
        /\ IF string.ok
           THEN /\ issued' =
                     Times(xdo_enter_text_window(xdo, window,
                               as_ptr(string.bytes), AsUsecondsT(delay)), 1)
                /\ result' = Unit
           ELSE /\ issued' = EmptyBag
                /\ result' = Panic
        /\ UNCHANGED <<xdo, delay, window, alive, overflow_checks, session, nNew,
                       nFree, setWindowArg, setDelayArg>>

key_down_twice(key) ==
    LET string == CString_new(keysequence(key))
    IN  /\ alive
        /\ op' = [name |-> "key_down", key |-> key]
        /\ reply' = <<>>
        /\ IF string.ok
           THEN /\ issued' =
                     Times(xdo_send_keysequence_window_down(xdo, window,
                               as_ptr(string.bytes), AsUsecondsT(delay)), 2)
                /\ result' = Unit
           ELSE /\ issued' = EmptyBag
                /\ result' = Panic
        /\ UNCHANGED <<xdo, delay, window, alive, overflow_checks, session, nNew,
                       nFree, setWindowArg, setDelayArg>>

key_down(key) ==
    LET string == CString_new(keysequence(key))
    IN  /\ alive
        /\ op' = [name |-> "key_down", key |-> key]
        /\ reply' = <<>>
        /\ IF string.ok
           THEN /\ issued' =
                     Times(xdo_send_keysequence_window_down(xdo, window,
                               as_ptr(string.bytes), AsUsecondsT(delay)), 1)
                /\ result' = Unit
           ELSE /\ issued' = EmptyBag
                /\ result' = Panic
        /\ UNCHANGED <<xdo, delay, window, alive, overflow_checks, session, nNew,
                       nFree, setWindowArg, setDelayArg>>

key_up(key) ==
    LET string == CString_new(keysequence(key))
    IN  /\ alive
        /\ op' = [name |-> "key_up", key |-> key]
        /\ reply' = <<>>
        /\ IF string.ok
           THEN /\ issued' =
                     Times(xdo_send_keysequence_window_up(xdo, window,
                               as_ptr(string.bytes), AsUsecondsT(delay)), 1)
                /\ result' = Unit
           ELSE /\ issued' = EmptyBag
                /\ result' = Panic
        /\ UNCHANGED <<xdo, delay, window, alive, overflow_checks, session, nNew,
                       nFree, setWindowArg, setDelayArg>>

key_click(key) ==
    LET string == CString_new(keysequence(key))
    IN  /\ alive
        /\ op' = [name |-> "key_click", key |-> key]
        /\ reply' = <<>>
        /\ IF string.ok
           THEN /\ issued' =
                     Times(xdo_send_keysequence_window(xdo, window,
                               as_ptr(string.bytes), AsUsecondsT(delay)), 1)
                /\ result' = Unit
           ELSE /\ issued' = EmptyBag
                /\ result' = Panic
        /\ UNCHANGED <<xdo, delay, window, alive, overflow_checks, session, nNew,
                       nFree, setWindowArg, setDelayArg>>

(***************************************************************************)
(* The wrapper used by a single owner, one call at a time                  *)
(***************************************************************************)
Next ==
    \/ Enigo_delay
    \/ \E d \in Delays : set_delay(d)
    \/ Enigo_window
    \/ \E w \in Windows : set_window(w)
    \/ \E status \in EngineInts : window_focus(status)
    \/ \E status \in EngineInts : window_pid(status)
    \/ \E pid \in Pids, status \in EngineInts, count \in Counts :
           search_window_by_pid(pid, status, count)
    \/ \E x, y \in Coordinates : mouse_move_to(x, y)
    \/ \E x, y \in Coordinates : mouse_move_relative(x, y)
    \/ \E button \in MouseButton : mouse_down(button)
    \/ \E button \in MouseButton : mouse_up(button)
    \/ \E button \in MouseButton : mouse_click(button)
    \/ \E length \in Lengths : mouse_scroll_x(length)
    \/ \E length \in Lengths : mouse_scroll_y(length)
    \/ \E sequence \in Texts : key_sequence(sequence)
    \/ \E key \in Keys : key_down(key)
    \/ \E key \in Keys : key_up(key)
    \/ \E key \in Keys : key_click(key)
    \/ Drop

Spec == Init /\ [][Next]_vars

(***************************************************************************)
(* Vocabulary of the properties                                            *)
(***************************************************************************)
\* number of engine calls issued by the latest invocation (every invocation
\* issues copies of at most one call)
NCalls ==
    IF DOMAIN issued = {} THEN 0
    ELSE issued[CHOOSE c \in DOMAIN issued : TRUE]

\* the target window and delay a caller has asked for so far
TargetAsked == IF setWindowArg = <<>> THEN 0 ELSE setWindowArg[1]
DelayAsked ==
    IF setDelayArg = <<>> THEN <<12000, 0, 0, 0>> ELSE setDelayArg[1]

WindowCalls ==
    {"xdo_focus_window", "xdo_get_pid_window", "xdo_click_window",
     "xdo_mouse_down", "xdo_mouse_up", "xdo_enter_text_window",
     "xdo_send_keysequence_window", "xdo_send_keysequence_window_down",
     "xdo_send_keysequence_window_up"}
KeyboardCalls ==
    {"xdo_enter_text_window", "xdo_send_keysequence_window",
     "xdo_send_keysequence_window_down", "xdo_send_keysequence_window_up"}
KeyOps == {"key_down", "key_up", "key_click"}
ScrollOps == {"mouse_scroll_x", "mouse_scroll_y"}
DispatchOps ==
    {"mouse_move_to", "mouse_move_relative", "mouse_down", "mouse_up",
     "mouse_click", "mouse_scroll_x", "mouse_scroll_y", "key_sequence",
     "key_down", "key_up", "key_click", "window_focus", "window_pid",
     "search_window_by_pid"}
HasNul(s) == \E i \in 1..Len(s) : s[i] = NUL

(***************************************************************************)
(* C1: the engine handle is acquired exactly once, at construction, and    *)
(* released exactly once, at teardown; every engine call in between is     *)
(* given the handle acquired at construction; nothing is invoked after     *)
(* the release, also when an operation in between has failed.              *)
(***************************************************************************)
C1_Lifecycle ==
    /\ nNew = 1
    /\ nFree = (IF alive THEN 0 ELSE 1)
    /\ xdo = session
    /\ \A c \in DOMAIN issued : c.fn # "xdo_new" => c.xdo = session
    /\ alive => xdo_free(session) \notin DOMAIN issued
    /\ ~alive => op.name = "drop" /\ issued = Times(xdo_free(session), 1)

\* the wrapper was released while its failed type-text was unwinding
C1_Witness ==
    /\ ~alive
    /\ op.name = "drop" /\ op.unwinding
    /\ nNew = 1 /\ nFree = 1

(***************************************************************************)
(* C2: every engine call that takes a window is given the argument of the  *)
(* latest set_window, or the sentinel 0 before any set_window; and every   *)
(* button, key, text, focus and pid operation that returns issues such a   *)
(* call.                                                                   *)
(***************************************************************************)
C2_TargetWindow ==
    /\ \A c \in DOMAIN issued :
           c.fn \in WindowCalls => c.window = TargetAsked
    /\ (/\ op.name \in (DispatchOps \ ScrollOps)
               \ {"mouse_move_to", "mouse_move_relative",
                  "search_window_by_pid"}
        /\ result # Panic)
       => \E c \in DOMAIN issued : c.fn \in WindowCalls
    /\ op.name \in ScrollOps => \A c \in DOMAIN issued : c.fn \in WindowCalls

C2_Witness ==
    /\ setWindowArg = <<MinI32>>
    /\ op.name = "key_click"
    /\ \E c \in DOMAIN issued : c.window = MinI32

(***************************************************************************)
(* C3: every keyboard call is given exactly the delay of the latest        *)
(* set_delay, which is also what the delay getter returns.                 *)
(***************************************************************************)
C3_Delay ==
    /\ delay = DelayAsked
    /\ \A c \in DOMAIN issued :
           c.fn \in KeyboardCalls =>
               <<c.delay[1], c.delay[2], 0, 0>> = DelayAsked
    /\ op.name = "delay" => result.value = DelayAsked

(***************************************************************************)
(* C4: scroll-horizontal(n) and scroll-vertical(n) issue exactly |n| click *)
(* calls at the target window and nothing else, with ScrollLeft (6) or     *)
(* ScrollUp (4) when n < 0 and ScrollRight (7) or ScrollDown (5) when      *)
(* n >= 0, for every 32-bit n.                                             *)
(***************************************************************************)
C4_Scroll ==
    op.name \in ScrollOps =>
        LET n == op.length
            code == IF op.name = "mouse_scroll_x"
                    THEN (IF n < 0 THEN 6 ELSE 7)
                    ELSE (IF n < 0 THEN 4 ELSE 5)
        IN  /\ result = Unit
            /\ DOMAIN issued \subseteq
                   {xdo_click_window(session, TargetAsked, code)}
            /\ IF n < 0 THEN NCalls + n = 0 ELSE NCalls = n

(***************************************************************************)
(* C5: type-text on a text with an embedded null character, and key-click  *)
(* on a token with one, report an "invalid input" failure to the caller:   *)
(* no panic, and no engine call with a truncated string.                   *)
(***************************************************************************)
C5_NulRejected ==
    /\ (op.name = "key_sequence" /\ HasNul(op.sequence)) =>
           result # Panic /\ result.kind = "invalid_input" /\ NCalls = 0
    /\ (op.name = "key_click" /\ HasNul(keysequence(op.key))) =>
           result # Panic /\ result.kind = "invalid_input" /\ NCalls = 0

(***************************************************************************)
(* C6: the token of a key is the one of the fixed table: Layout(c) gives   *)
(* "U" and the uppercase hexadecimal digits of c without padding, Raw(k)   *)
(* the decimal digits of k, Command, Super, Windows and Meta give "Super", *)
(* the named keys their named tokens; every token is non-empty and free of *)
(* null characters, so key-down, key-up and key-click never fail on it and *)
(* the engine is handed the whole token.                                   *)
(***************************************************************************)
HexDigits ==
    {"0", "1", "2", "3", "4", "5", "6", "7", "8", "9",
     "A", "B", "C", "D", "E", "F"}
DecDigits == {"0", "1", "2", "3", "4", "5", "6", "7", "8", "9"}
DigitValue(ch) == (CHOOSE i \in 1..16 : Digits[i] = ch) - 1

\* the number a digit string denotes in a base
RECURSIVE Denotes(_, _)
Denotes(s, base) ==
    IF s = <<>> THEN 0
    ELSE Denotes(SubSeq(s, 1, Len(s) - 1), base) * base
             + DigitValue(s[Len(s)])

\* s is the unpadded numeral of n over the digits ds in a base
Numeral(s, n, ds, base) ==
    /\ Len(s) >= 1
    /\ \A i \in 1..Len(s) : s[i] \in ds
    /\ Len(s) > 1 => s[1] # "0"
    /\ Denotes(s, base) = n

NamedTokens ==
    [Backspace |-> <<"B", "a", "c", "k", "S", "p", "a", "c", "e">>,
     DownArrow |-> <<"D", "o", "w", "n">>,
     Escape |-> <<"E", "s", "c", "a", "p", "e">>,
     F1 |-> <<"F", "1">>, F2 |-> <<"F", "2">>, F3 |-> <<"F", "3">>,
     F4 |-> <<"F", "4">>, F5 |-> <<"F", "5">>, F6 |-> <<"F", "6">>,
     F7 |-> <<"F", "7">>, F8 |-> <<"F", "8">>, F9 |-> <<"F", "9">>,
     F10 |-> <<"F", "1", "0">>, F11 |-> <<"F", "1", "1">>,
     F12 |-> <<"F", "1", "2">>,
     Space |-> <<"s", "p", "a", "c", "e">>,
     CapsLock |-> <<"C", "a", "p", "s", "_", "L", "o", "c", "k">>,
     PageUp |-> <<"P", "a", "g", "e", "_", "U", "p">>,
     PageDown |-> <<"P", "a", "g", "e", "_", "D", "o", "w", "n">>,
     Command |-> <<"S", "u", "p", "e", "r">>,
     Super |-> <<"S", "u", "p", "e", "r">>,
     Windows |-> <<"S", "u", "p", "e", "r">>,
     Meta |-> <<"S", "u", "p", "e", "r">>]

C6_Tokens ==
    op.name \in KeyOps =>
        /\ result = Unit
        /\ NCalls = 1
        /\ \A c \in DOMAIN issued :
               LET t == c.string
                   k == op.key
               IN  /\ Len(t) >= 1
                   /\ ~HasNul(t)
                   /\ k.tag = "Layout" =>
                          /\ t[1] = "U"
                          /\ Numeral(Tail(t), k.v, HexDigits, 16)
                   /\ k = Layout(65) => t = <<"U", "4", "1">>
                   /\ k.tag = "Raw" => Numeral(t, k.v, DecDigits, 10)
                   /\ k = Raw(65) => t = <<"6", "5">>
                   /\ k.tag \in DOMAIN NamedTokens => t = NamedTokens[k.tag]

C6_Witness ==
    /\ op.name = "key_click"
    /\ op.key = Layout(1114111)
    /\ \E c \in DOMAIN issued :
           c.string = <<"U", "1", "0", "F", "F", "F", "F">>

(***************************************************************************)
(* C7: find_windows_by_pid(pid) issues exactly one search call, on the     *)
(* wrapper's handle, with a criteria record holding pid, max depth 100,    *)
(* only the pid bit (8) in the search mask and zero/null elsewhere, and    *)
(* returns exactly the count the engine reported, whatever the count and   *)
(* the status; target window and delay are left alone.                     *)
(***************************************************************************)
C7_Search ==
    /\ window = TargetAsked
    /\ delay = DelayAsked
    /\ op.name = "search_window_by_pid" =>
           /\ issued =
                  Times([fn |-> "xdo_search_windows", xdo |-> session,
                         search |->
                             [title |-> NULL, winclass |-> NULL,
                              winclassname |-> NULL, winname |-> NULL,
                              winrole |-> NULL, pid |-> op.pid,
                              max_depth |-> 100, only_visible |-> 0,
                              screen |-> 0, require |-> 0, searchmask |-> 8,
                              desktop |-> 0, limit |-> 0]], 1)
           /\ result.kind = "i32"
           /\ result.value >= 0
           /\ <<result.value % Limb, result.value \div Limb>>
                  = reply[1].count

(***************************************************************************)
(* C8: the target-window getter returns the argument of the latest         *)
(* set_window, or 0 if there was none, and the delay getter the argument   *)
(* of the latest set_delay, or 12000 if there was none: no other           *)
(* operation, failed or not, changes either, and a setter leaves the other *)
(* value and the handle alone.                                             *)
(***************************************************************************)
C8_Frame ==
    /\ window = TargetAsked
    /\ delay = DelayAsked
    /\ xdo = session
    /\ op.name = "window" => result = [kind |-> "i32", value |-> TargetAsked]
    /\ op.name = "delay" => result = [kind |-> "u64", value |-> DelayAsked]

\* both values set, and still in place after a failed type-text
C8_Witness ==
    /\ setWindowArg = <<42>>
    /\ setDelayArg = <<U64(5000)>>
    /\ op.name = "key_sequence" /\ result = Panic
    /\ window = 42 /\ delay = <<5000, 0, 0, 0>>

(***************************************************************************)
(* C9: button_code maps Left, Middle, Right, ScrollUp, ScrollDown,         *)
(* ScrollLeft, ScrollRight onto 1..7 in this order, one to one, and        *)
(* button-down(b), button-up(b) and click(b) each issue exactly the        *)
(* engine's press, release and click call with button_code(b) and the      *)
(* target window.                                                          *)
(***************************************************************************)
ButtonCodes ==
    [Left |-> 1, Middle |-> 2, Right |-> 3, ScrollUp |-> 4, ScrollDown |-> 5,
     ScrollLeft |-> 6, ScrollRight |-> 7]

C9_Buttons ==
    /\ \A a, b \in MouseButton :
           /\ mousebutton(a) \in 1..7
           /\ a # b => mousebutton(a) # mousebutton(b)
    /\ op.name = "mouse_down" =>
           issued = Times([fn |-> "xdo_mouse_down", xdo |-> session,
                           window |-> TargetAsked,
                           button |-> ButtonCodes[op.button]], 1)
    /\ op.name = "mouse_up" =>
           issued = Times([fn |-> "xdo_mouse_up", xdo |-> session,
                           window |-> TargetAsked,
                           button |-> ButtonCodes[op.button]], 1)
    /\ op.name = "mouse_click" =>
           issued = Times([fn |-> "xdo_click_window", xdo |-> session,
                           window |-> TargetAsked,
                           button |-> ButtonCodes[op.button]], 1)

C9_Witness ==
    /\ op.name = "mouse_up" /\ op.button = "Right"
    /\ window = 42
    /\ issued = Times([fn |-> "xdo_mouse_up", xdo |-> session,
                       window |-> 42, button |-> 3], 1)

====
